---- MODULE Spec2Model ----
(***************************************************************************)
(* Model of gemini_stats_labmda.py: one process that imports the module    *)
(* once (fixing the timestamp t) and then serves lambda_handler            *)
(* invocations.  An invocation reads three secrets, fetches the price      *)
(* feed, converts it to a dict, fetches the trade history with a signed    *)
(* request, folds the orders into the holding summary, renders the rows    *)
(* and sends one email.                                                    *)
(*                                                                         *)
(* Numbers.  A Python float is modelled as an integer count of thousandths *)
(* (0.3 is 300, 0.01 is 10).  The inputs are chosen so that every product  *)
(* is a whole number of thousandths, hence sums and products are exact;    *)
(* the binary rounding error of IEEE doubles is not modelled.  round(x, 2) *)
(* rounds to a multiple of 10 thousandths, ties to even.                   *)
(*                                                                         *)
(* Strings.  A str is a sequence of one-character strings, so that         *)
(* upper(), "in" and replace() are computed rather than assumed.           *)
(*                                                                         *)
(* Dicts.  A dict is a sequence of [key, val] entries in insertion order;  *)
(* assigning to a key that is present keeps its position.                  *)
(***************************************************************************)
EXTENDS Integers, Sequences, FiniteSets, TLC

\* ------------------------------------------------------------------ bounds

MaxOrders == 2
MaxQuotes == 2
MaxClock == 1

\* ------------------------------------------------------------------ strings

BTCUSD == <<"B", "T", "C", "U", "S", "D">>
ETHUSD == <<"E", "T", "H", "U", "S", "D">>
ethusd == <<"e", "t", "h", "u", "s", "d">>
GUSDUSD == <<"G", "U", "S", "D", "U", "S", "D">>
GUSD == <<"G", "U", "S", "D">>
USD == <<"U", "S", "D">>
TOTAL == <<"T", "O", "T", "A", "L">>

UpperChar(c) ==
    CASE c = "e" -> "E"
      [] c = "t" -> "T"
      [] c = "h" -> "H"
      [] c = "u" -> "U"
      [] c = "s" -> "S"
      [] c = "d" -> "D"
      [] OTHER -> c

Upper(s) == [k \in DOMAIN s |-> UpperChar(s[k])]

\* sub in s
Contains(sub, s) ==
    \E k \in 0..(Len(s) - Len(sub)) : SubSeq(s, k + 1, k + Len(sub)) = sub

\* s.replace(old, ""): the non-overlapping occurrences, left to right
RECURSIVE Remove(_, _)
Remove(s, old) ==
    IF Len(s) < Len(old) THEN s
    ELSE IF SubSeq(s, 1, Len(old)) = old
         THEN Remove(SubSeq(s, Len(old) + 1, Len(s)), old)
         ELSE <<s[1]>> \o Remove(Tail(s), old)

\* ------------------------------------------------------------------ numbers

\* A numeric field of an API record is text: either a decimal number
\* (num, with its value in thousandths) or text that float() rejects.
Text(n) == [num |-> TRUE, val |-> n]
Malformed == [num |-> FALSE, val |-> 0]

\* float(x) succeeds
Parses(x) == x.num
\* float(x), where it succeeds
Float(x) == x.val

\* x * y on floats
Mul(x, y) == (x * y) \div 1000

\* round(x, 2)
Round2(x) ==
    LET q == x \div 10
        r == x % 10
    IN  IF r < 5 THEN 10 * q
        ELSE IF r > 5 THEN 10 * (q + 1)
        ELSE IF q % 2 = 0 THEN 10 * q ELSE 10 * (q + 1)

\* ------------------------------------------------------------------ dicts

Keys(d) == {d[k].key : k \in DOMAIN d}
DictHas(d, key) == key \in Keys(d)
Index(d, key) == CHOOSE k \in DOMAIN d : d[k].key = key
\* d.get(key, default)
DictGet(d, key, default) == IF DictHas(d, key) THEN d[Index(d, key)].val ELSE default
\* d[key] = val
DictPut(d, key, val) ==
    IF DictHas(d, key)
    THEN [d EXCEPT ![Index(d, key)] = [key |-> key, val |-> val]]
    ELSE Append(d, [key |-> key, val |-> val])

\* ------------------------------------------------------------------ inputs

\* amounts 0.1 and 0.3, prices 0.01 and 0.10
AmountVals == {100, 300}
PriceVals == {10, 100}

\* the records of /v1/pricefeed
Quotes ==
    [pair : {BTCUSD}, price : {Text(p) : p \in PriceVals} \cup {Malformed}]
    \cup
    [pair : {ETHUSD, ethusd}, price : {Text(100)}]

\* the records of /v1/mytrades
Orders ==
    [type : {"Buy"}, symbol : {BTCUSD, ethusd},
     amount : {Text(a) : a \in AmountVals}, price : {Text(p) : p \in PriceVals}]
    \cup
    {[type |-> "Buy", symbol |-> GUSDUSD, amount |-> Text(300), price |-> Text(100)],
     [type |-> "Buy", symbol |-> BTCUSD, amount |-> Malformed, price |-> Text(100)],
     [type |-> "buy", symbol |-> BTCUSD, amount |-> Text(100), price |-> Malformed],
     [type |-> "Sell", symbol |-> BTCUSD, amount |-> Text(300), price |-> Text(100)]}

SeqsUpTo(S, n) == UNION {[1..k -> S] : k \in 0..n}

PriceLists == SeqsUpTo(Quotes, MaxQuotes)
TradeLists == SeqsUpTo(Orders, MaxOrders)

\* ------------------------------------------------------------------ convert_price_list_to_dict

RECURSIVE ConvertLoop(_, _)
ConvertLoop(price_list, dict) ==
    IF price_list = <<>> THEN [ok |-> TRUE, dict |-> dict]
    ELSE LET symbol_group == Head(price_list)
         IN  IF ~Parses(symbol_group.price)
             THEN [ok |-> FALSE, dict |-> dict]
             ELSE ConvertLoop(Tail(price_list),
                              DictPut(dict, symbol_group.pair, Float(symbol_group.price)))

RECURSIVE ConvertLoopFirstWins(_, _)
ConvertLoopFirstWins(price_list, dict) ==
    IF price_list = <<>> THEN [ok |-> TRUE, dict |-> dict]
    ELSE LET symbol_group == Head(price_list)
         IN  IF ~Parses(symbol_group.price)
             THEN [ok |-> FALSE, dict |-> dict]
             ELSE ConvertLoopFirstWins(Tail(price_list),
                      IF DictHas(dict, symbol_group.pair) THEN dict
                      ELSE DictPut(dict, symbol_group.pair, Float(symbol_group.price)))

ConvertPriceListToDictFirstWins(price_list) == ConvertLoopFirstWins(price_list, <<>>)

\* [ok, dict]: ok is FALSE when float() raises ValueError
ConvertPriceListToDict(price_list) == ConvertLoop(price_list, <<>>)

\* ------------------------------------------------------------------ get_crypto_holding_summary

ZeroAggregate == [amount |-> 0, spent |-> 0, value |-> 0]

IsBuyAnyType(order) == order.type \in {"Buy", "buy", "Sell"}

IsBuy(order) == order.type = "Buy"

SymbolKeyAsGiven(order) == order.symbol

SymbolKey(order) == Upper(order.symbol)

OrderSpentUnrounded(order) == Mul(Float(order.price), Float(order.amount))

OrderSpent(order) == Round2(Mul(Float(order.price), Float(order.amount)))

PriceGetOrZero(prices, symbol) == [found |-> TRUE, val |-> DictGet(prices, symbol, 0)]

\* price_dict.get(symbol): None when the symbol has no entry
PriceGet(prices, symbol) ==
    [found |-> DictHas(prices, symbol), val |-> DictGet(prices, symbol, 0)]

NewValueOfOrder(agg, order, price) == Mul(Float(order.amount), price)

\* buy_order_tokens[symbol]["amount"] * price_dict.get(symbol)
NewValue(agg, order, price) == Mul(agg.amount, price)

\* One iteration of the loop over the trades: the mapping after it, and the
\* exception it raised if any.
FoldStep(tokens, order, prices) ==
    IF ~IsBuy(order) THEN [tokens |-> tokens, error |-> "none"]
    ELSE LET symbol == SymbolKey(order)
         IN  IF Contains(GUSD, symbol) THEN [tokens |-> tokens, error |-> "none"]
             ELSE IF ~Parses(order.amount) \/ ~Parses(order.price)
                  THEN [tokens |-> tokens, error |-> "ValueError"]
                  ELSE LET old == DictGet(tokens, symbol, ZeroAggregate)
                           agg == [amount |-> old.amount + Float(order.amount),
                                   spent |-> old.spent + OrderSpent(order),
                                   value |-> old.value]
                           price == PriceGet(prices, symbol)
                       IN  IF ~price.found
                           THEN [tokens |-> DictPut(tokens, symbol, agg),
                                 error |-> "TypeError"]
                           ELSE [tokens |-> DictPut(tokens, symbol,
                                     [agg EXCEPT !.value = NewValue(agg, order, price.val)]),
                                 error |-> "none"]

\* The whole loop, as a function of the trades and the price dict.
RECURSIVE FoldAll(_, _, _)
FoldAll(tokens, orders, prices) ==
    IF orders = <<>> THEN [tokens |-> tokens, error |-> "none"]
    ELSE LET r == FoldStep(tokens, Head(orders), prices)
         IN  IF r.error # "none" THEN r ELSE FoldAll(r.tokens, Tail(orders), prices)

\* ------------------------------------------------------------------ generate_html

TokeColorNonStrict(spent, value) == IF spent <= value THEN "green" ELSE "red"

TokeColor(spent, value) == IF spent < value THEN "green" ELSE "red"

GenerateTokeColor(spent, value) ==
    [color |-> TokeColor(spent, value), delta |-> Round2(value - spent)]

TokenRow(k, v) ==
    [total |-> FALSE, label |-> Remove(k, USD),
     delta |-> GenerateTokeColor(v.spent, v.value),
     spent |-> Round2(v.spent), value |-> Round2(v.value)]

TotalRow(total_spent, total_value) ==
    [total |-> TRUE, label |-> TOTAL,
     delta |-> GenerateTokeColor(total_spent, total_value),
     spent |-> Round2(total_spent), value |-> Round2(total_value)]

RECURSIVE TokenRowsLoop(_, _, _, _)
TokenRowsLoop(items, tokens_html, total_spent, total_value) ==
    IF items = <<>>
    THEN Append(tokens_html, TotalRow(total_spent, total_value))
    ELSE LET k == Head(items).key
             v == Head(items).val
         IN  TokenRowsLoop(Tail(items), Append(tokens_html, TokenRow(k, v)),
                           total_spent + v.spent, total_value + v.value)

Reverse(s) == [k \in DOMAIN s |-> s[Len(s) + 1 - k]]

GenerateTokenRowsReversed(crypto_summary_dict) ==
    TokenRowsLoop(Reverse(crypto_summary_dict), <<>>, 0, 0)

GenerateTokenRows(crypto_summary_dict) == TokenRowsLoop(crypto_summary_dict, <<>>, 0, 0)

GenerateHtml(crypto_summary_dict) ==
    [table_header |-> <<"Symbol", "Delta", "Spent", "Value">>,
     token_rows |-> GenerateTokenRows(crypto_summary_dict)]

NoHtml == [table_header |-> <<>>, token_rows |-> <<>>]

\* ------------------------------------------------------------------ state

VARIABLES
    pc,                 \* where lambda_handler is
    now,                \* the wall clock, in seconds
    t,                  \* the module-level timestamp, set at import
    prevNonce,          \* nonce of the signed request before the last one
    lastNonce,          \* nonce of the last signed request
    secretsRead,        \* get_secret calls returned in this invocation
    price_list,         \* response of /v1/pricefeed
    price_dict,         \* convert_price_list_to_dict's result
    trades,             \* response of /v1/mytrades
    i,                  \* orders of trades the loop has consumed
    buy_order_tokens,   \* the holding summary under construction
    email_body,         \* generate_html's result
    sent,               \* send_email calls of this invocation
    error,              \* the exception that ended this invocation
    completed           \* functions that returned normally in this invocation

vars == <<pc, now, t, prevNonce, lastNonce, secretsRead, price_list, price_dict,
          trades, i, buy_order_tokens, email_body, sent, error, completed>>

clock == <<now, t>>
nonces == <<prevNonce, lastNonce>>
locals == <<secretsRead, price_list, price_dict, trades, i, buy_order_tokens,
            email_body, sent, completed>>

NoNonce == -1

\* After import: t = datetime.datetime.now(), no invocation yet.
Init ==
    /\ pc = "idle"
    /\ now = 0
    /\ t = 0
    /\ prevNonce = NoNonce
    /\ lastNonce = NoNonce
    /\ secretsRead = 0
    /\ price_list = <<>>
    /\ price_dict = <<>>
    /\ trades = <<>>
    /\ i = 0
    /\ buy_order_tokens = <<>>
    /\ email_body = NoHtml
    /\ sent = 0
    /\ error = "none"
    /\ completed = {}

\* Time passes between invocations.
Tick ==
    /\ pc = "idle"
    /\ now < MaxClock
    /\ now' = now + 1
    /\ UNCHANGED <<pc, t, nonces, locals, error>>

\* lambda_handler is entered.
LambdaHandler ==
    /\ pc = "idle"
    /\ pc' = "get_secret"
    /\ UNCHANGED <<clock, nonces, locals, error>>

Raise(e) ==
    /\ pc' = "raised"
    /\ error' = e

\* One of the three get_secret calls: it returns the secret or re-raises.
GetSecret ==
    /\ pc = "get_secret"
    /\ \/ /\ secretsRead' = secretsRead + 1
          /\ pc' = IF secretsRead + 1 = 3 THEN "pricefeed" ELSE "get_secret"
          /\ UNCHANGED error
       \/ /\ Raise("ClientError")
          /\ UNCHANGED secretsRead
    /\ UNCHANGED <<clock, nonces, price_list, price_dict, trades, i, buy_order_tokens,
                   email_body, sent, completed>>

\* get_current_asset_prices: the public call returns the feed or raises.
GetCurrentAssetPrices ==
    /\ pc = "pricefeed"
    /\ \/ /\ price_list' \in PriceLists
          /\ pc' = "convert"
          /\ UNCHANGED error
       \/ /\ Raise("RequestException")
          /\ UNCHANGED price_list
    /\ UNCHANGED <<clock, nonces, secretsRead, price_dict, trades, i, buy_order_tokens,
                   email_body, sent, completed>>

\* price_dict = convert_price_list_to_dict(...)
ConvertPrices ==
    /\ pc = "convert"
    /\ LET r == ConvertPriceListToDict(price_list)
       IN  \/ /\ r.ok
              /\ price_dict' = r.dict
              /\ completed' = completed \cup {"convert_price_list_to_dict"}
              /\ pc' = "mytrades"
              /\ UNCHANGED error
           \/ /\ ~r.ok
              /\ Raise("ValueError")
              /\ UNCHANGED <<price_dict, completed>>
    /\ UNCHANGED <<clock, nonces, secretsRead, price_list, trades, i, buy_order_tokens,
                   email_body, sent>>

RequestNonceFromNow == now * 1000

\* nonce = str(int(time.mktime(t.timetuple())*1000))
RequestNonce == t * 1000

\* get_all_trades: private_api_call signs a request carrying the nonce; the
\* post returns the trades or raises.  The feed list is a temporary and is
\* gone once the dict is built.
GetAllTrades ==
    /\ pc = "mytrades"
    /\ prevNonce' = lastNonce
    /\ lastNonce' = RequestNonce
    /\ price_list' = <<>>
    /\ \/ /\ trades' \in TradeLists
          /\ pc' = "fold"
          /\ UNCHANGED error
       \/ /\ Raise("RequestException")
          /\ UNCHANGED trades
    /\ UNCHANGED <<clock, secretsRead, price_dict, i, buy_order_tokens, email_body,
                   sent, completed>>

\* The loop with its exceptions swallowed: the error is noted and the
\* summary built so far goes on to be rendered.
FoldOrderSwallow ==
    /\ pc = "fold"
    /\ i < Len(trades)
    /\ LET r == FoldStep(buy_order_tokens, trades[i + 1], price_dict)
       IN  /\ buy_order_tokens' = r.tokens
           /\ \/ /\ r.error = "none"
                 /\ i' = i + 1
                 /\ UNCHANGED <<pc, error>>
              \/ /\ r.error # "none"
                 /\ pc' = "generate_html"
                 /\ error' = r.error
                 /\ UNCHANGED i
    /\ UNCHANGED <<clock, nonces, secretsRead, price_list, price_dict, trades,
                   email_body, sent, completed>>

\* One iteration of the for loop of get_crypto_holding_summary.
FoldOrder ==
    /\ pc = "fold"
    /\ i < Len(trades)
    /\ LET r == FoldStep(buy_order_tokens, trades[i + 1], price_dict)
       IN  /\ buy_order_tokens' = r.tokens
           /\ \/ /\ r.error = "none"
                 /\ i' = i + 1
                 /\ UNCHANGED <<pc, error>>
              \/ /\ r.error # "none"
                 /\ Raise(r.error)
                 /\ UNCHANGED i
    /\ UNCHANGED <<clock, nonces, secretsRead, price_list, price_dict, trades,
                   email_body, sent, completed>>

\* The loop is over: return buy_order_tokens.
ReturnSummary ==
    /\ pc = "fold"
    /\ i = Len(trades)
    /\ completed' = completed \cup {"get_crypto_holding_summary"}
    /\ pc' = "generate_html"
    /\ UNCHANGED <<clock, nonces, secretsRead, price_list, price_dict, trades, i,
                   buy_order_tokens, email_body, sent, error>>

\* email_body = generate_html(...)
GenerateHtmlStep ==
    /\ pc = "generate_html"
    /\ email_body' = GenerateHtml(buy_order_tokens)
    /\ completed' = completed \cup {"generate_html"}
    /\ pc' = "send_email"
    /\ UNCHANGED <<clock, nonces, secretsRead, price_list, price_dict, trades, i,
                   buy_order_tokens, sent, error>>

\* send_email(...): the mail goes out or the SMTP exchange raises.
SendEmail ==
    /\ pc = "send_email"
    /\ sent' = sent + 1
    /\ \/ /\ pc' = "done"
          /\ UNCHANGED error
       \/ Raise("SMTPException")
    /\ UNCHANGED <<clock, nonces, secretsRead, price_list, price_dict, trades, i,
                   buy_order_tokens, email_body, completed>>

\* lambda_handler returns or its exception leaves it: the locals are gone.
Return ==
    /\ pc \in {"done", "raised"}
    /\ pc' = "idle"
    /\ secretsRead' = 0
    /\ price_list' = <<>>
    /\ price_dict' = <<>>
    /\ trades' = <<>>
    /\ i' = 0
    /\ buy_order_tokens' = <<>>
    /\ email_body' = NoHtml
    /\ sent' = 0
    /\ error' = "none"
    /\ completed' = {}
    /\ UNCHANGED <<clock, nonces>>

Next ==
    \/ Tick
    \/ LambdaHandler
    \/ GetSecret
    \/ GetCurrentAssetPrices
    \/ ConvertPrices
    \/ GetAllTrades
    \/ FoldOrder
    \/ ReturnSummary
    \/ GenerateHtmlStep
    \/ SendEmail
    \/ Return

Spec == Init /\ [][Next]_vars

TypeOK ==
    /\ pc \in {"idle", "get_secret", "pricefeed", "convert", "mytrades", "fold",
               "generate_html", "send_email", "done", "raised"}
    /\ i \in 0..Len(trades)
    /\ sent \in 0..1

\* ------------------------------------------------------------------ properties

\* the orders the loop has consumed
Folded == SubSeq(trades, 1, i)

\* get_crypto_holding_summary has a mapping: it is in its loop or has returned
HasSummary == pc \in {"fold", "generate_html", "send_email", "done"}

\* get_crypto_holding_summary has returned its mapping
SummaryReturned == pc \in {"generate_html", "send_email", "done"}

\* the loop of get_crypto_holding_summary raised
FoldRaised ==
    /\ pc = "raised"
    /\ error \in {"ValueError", "TypeError"}
    /\ "convert_price_list_to_dict" \in completed

\* generate_html has returned the body
Rendered == pc \in {"send_email", "done"}

BuysOf(orders) == SelectSeq(orders, LAMBDA o : o.type = "Buy")

KeyOf(o) == Upper(o.symbol)

\* the Buy orders that are aggregated under key
RECURSIVE OrdersFor(_, _)
OrdersFor(orders, key) ==
    IF orders = <<>> THEN <<>>
    ELSE LET o == Head(orders)
             rest == OrdersFor(Tail(orders), key)
         IN  IF o.type = "Buy" /\ KeyOf(o) = key THEN <<o>> \o rest ELSE rest

RECURSIVE SumAmounts(_)
SumAmounts(orders) ==
    IF orders = <<>> THEN 0 ELSE Head(orders).amount.val + SumAmounts(Tail(orders))

\* sum of the per-order costs, each rounded to cents
RECURSIVE SumRoundedCosts(_)
SumRoundedCosts(orders) ==
    IF orders = <<>> THEN 0
    ELSE Round2((Head(orders).price.val * Head(orders).amount.val) \div 1000)
         + SumRoundedCosts(Tail(orders))

\* sum of the per-order costs, unrounded
RECURSIVE SumCosts(_)
SumCosts(orders) ==
    IF orders = <<>> THEN 0
    ELSE (Head(orders).price.val * Head(orders).amount.val) \div 1000
         + SumCosts(Tail(orders))

\* the keys that get an aggregate, in the order of their first Buy order
RECURSIVE FirstKeys(_, _)
FirstKeys(orders, seen) ==
    IF orders = <<>> THEN seen
    ELSE LET o == Head(orders)
             adds == /\ o.type = "Buy"
                     /\ ~Contains(GUSD, KeyOf(o))
                     /\ \A k \in DOMAIN seen : seen[k] # KeyOf(o)
         IN  FirstKeys(Tail(orders), IF adds THEN Append(seen, KeyOf(o)) ELSE seen)

KeySeq(d) == [k \in DOMAIN d |-> d[k].key]

\* a dict as a mapping, without its insertion order
AsMap(d) == {<<d[k].key, d[k].val>> : k \in DOMAIN d}

Perms(s) == {[k \in DOMAIN s |-> s[f[k]]] : f \in Permutations(DOMAIN s)}

RECURSIVE SumSpent(_)
SumSpent(d) == IF d = <<>> THEN 0 ELSE Head(d).val.spent + SumSpent(Tail(d))

RECURSIVE SumValue(_)
SumValue(d) == IF d = <<>> THEN 0 ELSE Head(d).val.value + SumValue(Tail(d))

\* C1: only orders whose type is exactly "Buy" contribute: the mapping built
\* from the orders consumed so far is the one built from their Buy orders
\* alone, it is empty when there is no Buy order among them, and a run that
\* raises in the loop raises the same exception on the Buy orders alone.
C1_OnlyBuyContributes ==
    /\ HasSummary =>
          /\ FoldAll(<<>>, BuysOf(Folded), price_dict)
                = [tokens |-> buy_order_tokens, error |-> "none"]
          /\ (BuysOf(Folded) = <<>> => buy_order_tokens = <<>>)
    /\ FoldRaised => FoldAll(<<>>, BuysOf(trades), price_dict).error = error

C1_Witness ==
    /\ SummaryReturned
    /\ buy_order_tokens # <<>>
    /\ \E k \in DOMAIN trades : trades[k].type # "Buy" /\ trades[k].amount.num

\* C2 as stated: once the summary is returned, every Buy order's symbol has
\* an entry in the price lookup (a Buy order without a price always fails).
C2_Original ==
    SummaryReturned =>
        \A k \in DOMAIN trades :
            trades[k].type = "Buy" => DictHas(price_dict, KeyOf(trades[k]))

\* C2 amended: a Buy order whose uppercased symbol does not contain GUSD is
\* never passed by the loop unless the price lookup has an entry for the
\* uppercased symbol; the loop raises at it instead.
C2_MissingPriceFails ==
    /\ HasSummary =>
          \A k \in 1..i :
              (trades[k].type = "Buy" /\ ~Contains(GUSD, KeyOf(trades[k])))
                  => DictHas(price_dict, KeyOf(trades[k]))
    /\ SummaryReturned => i = Len(trades)

C2_Witness ==
    /\ pc = "raised"
    /\ error = "TypeError"
    /\ i < Len(trades)
    /\ trades[i + 1].type = "Buy"
    /\ ~DictHas(price_dict, KeyOf(trades[i + 1]))

\* C3: after any prefix of the orders, every aggregate's value is its amount
\* times the price of its key, and its amount is the sum of the amounts of
\* the Buy orders consumed for that key.
C3_ValueIsAmountTimesPrice ==
    HasSummary =>
        \A k \in DOMAIN buy_order_tokens :
            LET key == buy_order_tokens[k].key
                agg == buy_order_tokens[k].val
                amount == SumAmounts(OrdersFor(Folded, key))
            IN  /\ DictHas(price_dict, key)
                /\ agg.amount = amount
                /\ agg.value = (amount * DictGet(price_dict, key, 0)) \div 1000

C3_Witness ==
    /\ HasSummary
    /\ \E k \in DOMAIN buy_order_tokens :
          /\ buy_order_tokens[k].val.amount = 400
          /\ buy_order_tokens[k].val.value > 0
          /\ Len(OrdersFor(Folded, buy_order_tokens[k].key)) = 2

\* C4: every aggregate's spent is the sum of the per-order costs, each
\* rounded to two decimals before it is added.
C4_SpentSumsRoundedCosts ==
    HasSummary =>
        \A k \in DOMAIN buy_order_tokens :
            buy_order_tokens[k].val.spent
                = SumRoundedCosts(OrdersFor(Folded, buy_order_tokens[k].key))

\* two orders whose costs each round a fraction of a cent away
C4_Witness ==
    /\ HasSummary
    /\ \E k \in DOMAIN buy_order_tokens :
          LET orders == OrdersFor(Folded, buy_order_tokens[k].key)
          IN  /\ buy_order_tokens[k].val.spent = SumRoundedCosts(orders)
              /\ SumRoundedCosts(orders) # Round2(SumCosts(orders))

\* C5: send_email is called at most once in an invocation, and only after
\* convert_price_list_to_dict, get_crypto_holding_summary and generate_html
\* have returned, with the body rendered from the whole summary; an
\* invocation in which a parse or a price lookup raised is over and has sent
\* nothing.
C5_NoPartialReport ==
    /\ sent <= 1
    /\ sent = 1 =>
          /\ completed = {"convert_price_list_to_dict", "get_crypto_holding_summary",
                          "generate_html"}
          /\ i = Len(trades)
          /\ email_body = GenerateHtml(buy_order_tokens)
    /\ error \in {"ValueError", "TypeError"} => (pc = "raised" /\ sent = 0)
    /\ pc \in {"send_email", "done"} => error = "none"

C5_Witness ==
    /\ pc = "raised"
    /\ error = "TypeError"
    /\ buy_order_tokens # <<>>
    /\ sent = 0

\* C6 as stated: the returned summary has exactly one aggregate per distinct
\* symbol of the Buy orders, keyed by the symbol as the order gives it.
C6_Original ==
    SummaryReturned =>
        /\ Keys(buy_order_tokens)
              = {trades[k].symbol : k \in {j \in DOMAIN trades : trades[j].type = "Buy"}}
        /\ Cardinality(Keys(buy_order_tokens)) = Len(buy_order_tokens)

\* C6 amended: the summary has exactly one aggregate per distinct uppercased
\* symbol of the Buy orders whose uppercased symbol does not contain GUSD,
\* keyed by the uppercased symbol, in the order of each key's first Buy order.
C6_OneAggregatePerKey ==
    HasSummary =>
        /\ KeySeq(buy_order_tokens) = FirstKeys(Folded, <<>>)
        /\ Cardinality(Keys(buy_order_tokens)) = Len(buy_order_tokens)
        /\ Keys(buy_order_tokens)
              = {KeyOf(Folded[k]) :
                    k \in {j \in DOMAIN Folded :
                              /\ Folded[j].type = "Buy"
                              /\ ~Contains(GUSD, KeyOf(Folded[j]))}}

\* a lower-case symbol and a GUSD symbol among the Buy orders
C6_Witness ==
    /\ SummaryReturned
    /\ Len(trades) = 2
    /\ \E k \in DOMAIN trades : trades[k].type = "Buy" /\ trades[k].symbol = ethusd
    /\ \E k \in DOMAIN trades : trades[k].type = "Buy" /\ trades[k].symbol = GUSDUSD
    /\ KeySeq(buy_order_tokens) = <<ETHUSD>>

\* C7: every row of the report, the TOTAL row included, is green exactly
\* when its value is greater than its spent, and red otherwise.
C7_GreenIffValueAboveSpent ==
    Rendered =>
        LET rows == email_body.token_rows
            n == Len(buy_order_tokens)
        IN  /\ \A k \in 1..n :
                  /\ rows[k].delta.color \in {"green", "red"}
                  /\ rows[k].delta.color = "green"
                        <=> buy_order_tokens[k].val.value > buy_order_tokens[k].val.spent
            /\ rows[n + 1].delta.color \in {"green", "red"}
            /\ rows[n + 1].delta.color = "green"
                  <=> SumValue(buy_order_tokens) > SumSpent(buy_order_tokens)

\* a break-even row and a break-even TOTAL row, both red
C7_Witness ==
    /\ Rendered
    /\ Len(buy_order_tokens) = 1
    /\ buy_order_tokens[1].val.spent > 0
    /\ buy_order_tokens[1].val.value = buy_order_tokens[1].val.spent
    /\ email_body.token_rows[1].delta.color = "red"
    /\ email_body.token_rows[2].delta.color = "red"

\* C8 as stated: every permutation of the price records yields the mapping
\* convert_price_list_to_dict returned.
C8_Original ==
    pc = "mytrades" =>
        \A p \in Perms(price_list) :
            /\ ConvertPriceListToDict(p).ok
            /\ AsMap(ConvertPriceListToDict(p).dict) = AsMap(price_dict)

\* C8 amended: the mapping has one entry per pair of the list, holding the
\* price of the last record for that pair; when no pair occurs with two
\* different prices, every permutation of the list yields the same mapping.
C8_LastWins ==
    pc = "mytrades" =>
        /\ Keys(price_dict) = {price_list[k].pair : k \in DOMAIN price_list}
        /\ Cardinality(Keys(price_dict)) = Len(price_dict)
        /\ \A k \in DOMAIN price_list :
              (\A j \in (k + 1)..Len(price_list) : price_list[j].pair # price_list[k].pair)
                  => <<price_list[k].pair, price_list[k].price.val>> \in AsMap(price_dict)
        /\ (\A j, k \in DOMAIN price_list :
                price_list[j].pair = price_list[k].pair
                    => price_list[j].price = price_list[k].price)
              => \A p \in Perms(price_list) :
                    /\ ConvertPriceListToDict(p).ok
                    /\ AsMap(ConvertPriceListToDict(p).dict) = AsMap(price_dict)

\* a pair quoted twice with different prices
C8_Witness ==
    /\ pc = "mytrades"
    /\ Len(price_list) = 2
    /\ price_list[1].pair = price_list[2].pair
    /\ price_list[1].price # price_list[2].price
    /\ AsMap(price_dict) = {<<price_list[2].pair, price_list[2].price.val>>}

\* C9: the rows are one per symbol of the summary, in its insertion order,
\* followed by one TOTAL row, the last and the only one, whose spent and value
\* are the sums over the summary.
C9_RowsThenTotal ==
    Rendered =>
        LET rows == email_body.token_rows
            n == Len(buy_order_tokens)
        IN  /\ Len(rows) = n + 1
            /\ \A k \in 1..n :
                  /\ ~rows[k].total
                  /\ rows[k].label = Remove(buy_order_tokens[k].key, USD)
                  /\ rows[k].spent = Round2(buy_order_tokens[k].val.spent)
                  /\ rows[k].value = Round2(buy_order_tokens[k].val.value)
            /\ rows[n + 1].total
            /\ rows[n + 1].label = TOTAL
            /\ rows[n + 1].spent = Round2(SumSpent(buy_order_tokens))
            /\ rows[n + 1].value = Round2(SumValue(buy_order_tokens))

\* two symbols inserted in an order that is not the alphabetical one
C9_Witness ==
    /\ Rendered
    /\ KeySeq(buy_order_tokens) = <<ETHUSD, BTCUSD>>
    /\ Len(email_body.token_rows) = 3
    /\ email_body.token_rows[1].label = <<"E", "T", "H">>
    /\ email_body.token_rows[2].label = <<"B", "T", "C">>
    /\ email_body.token_rows[3].total

\* C10: every signed request carries the nonce of the import-time timestamp:
\* a request's nonce equals that of the request before it, whatever time has
\* passed.
C10_NonceNeverIncreases ==
    /\ lastNonce # NoNonce => lastNonce = t * 1000
    /\ prevNonce # NoNonce => lastNonce = prevNonce

\* a second request, made after the clock has moved on
C10_Witness ==
    /\ prevNonce # NoNonce
    /\ lastNonce = prevNonce
    /\ now > t
    /\ pc = "fold"

====
